---- MODULE Spec2Model ----
(***************************************************************************)
(* Model of code-examples-code-conventions.cpp: the entry point main and   *)
(* the illustrative operations of the namespaces Rule2_Structure ..         *)
(* Rule10_Namespaces, together with the helpers they call.                  *)
(*                                                                          *)
(* The executable runs main only.  The rule operations are exercised by a   *)
(* driver: a set of threads, each of which invokes one operation at a time. *)
(* With stubbed = FALSE the helpers error(), calculate() and process_data() *)
(* behave as the file defines them; with stubbed = TRUE they are replaced   *)
(* by test doubles that may also return true / throw, which is how the      *)
(* early-exit and exceptional paths of the examples are exercised.          *)
(***************************************************************************)
EXTENDS Integers, Sequences, FiniteSets, TLC

\* ---------------------------------------------------------------- bounds
NumThreads == 2
MaxCalls == 2

Threads == 1..NumThreads

\* std::mutex m is default-constructed unlocked; otherwise it holds its owner
Free == 0

\* ----------------------------------------------------- literals and inputs
Banner == "C++ Code Examples successfully compiled."
Endl == "\n"
HelloWorld == "Hello World"
ErrorPrefix == "Error: "
CalledInt == "Called func(int)\n"
CalledCharPtr == "Called func(char*)\n"

\* what() texts carried by the exceptions the test doubles throw
Msgs == {"overflow", "bad input"}
\* arguments passed to Rule4_Const::print
Strs == {"", "text"}
\* arguments passed to Rule7_Performance::process
Vectors == {<<>>, <<1, 2>>}

NoExc == [type |-> "none", what |-> ""]
StdException(w) == [type |-> "std::exception", what |-> w]
SystemError == [type |-> "std::exception", what |-> "resource_deadlock_would_occur"]
OtherException == [type |-> "other", what |-> ""]

Operations ==
    {"Rule2_example", "unsafe", "safe", "Rule4_print", "bad_lock", "good_lock",
     "old_style", "new_style", "Rule7_process", "Rule8_example", "Rule9_example",
     "Rule10_print"}

VARIABLES
    entry,          \* "main": the executable; "driver": operations invoked one by one
    mainpc,         \* position of main: "start", "printed", "exited"
    exit_code,      \* value returned by main (-1 until it returns)
    stdout,         \* sequence of texts inserted into std::cout
    stderr,         \* sequence of texts inserted into std::cerr
    mutex,          \* Rule5_RAII::m : Free or the owning thread
    users,          \* users[t] : User objects allocated by t and not yet deleted
    func_calls,     \* number of calls of func()
    do_other_calls, \* number of calls of do_other()
    ncalls,         \* number of operations invoked so far
    stubbed,        \* helpers replaced by test doubles
    pc,             \* pc[t] : position of thread t
    op,             \* op[t] : operation t invoked last
    x,              \* x[t] : argument of Rule2_Structure::example
    str,            \* str[t] : argument of Rule4_Const::print
    result,         \* result[t] : "none", "returned" or "threw"
    before,         \* before[t] : users[t] when the operation was invoked
    outcome,        \* outcome[t] : what the helper called by the operation did
    exc             \* exc[t] : exception in flight, or thrown out of the operation

vars == <<entry, mainpc, exit_code, stdout, stderr, mutex, users, func_calls,
          do_other_calls, ncalls, stubbed, pc, op, x, str, result, before,
          outcome, exc>>

mainVars == <<mainpc, exit_code>>
heapVars == <<users>>
counterVars == <<func_calls, do_other_calls>>
callVars == <<op, x, str, before, ncalls>>

\* ---------------------------------------------------------------- helpers
\* operator<< on a stream: inserting an empty text leaves the stream as it is
Write(stream, s) == IF s = "" THEN stream ELSE Append(stream, s)

\* variant of error() that reports an error
error_true == TRUE

\* bool error() { return false; }
error == FALSE
ErrorResults == IF stubbed THEN BOOLEAN ELSE {error}

\* int calculate() { return 10; }
calculate == 10
\* variant of calculate() that may throw std::runtime_error
CalculateOutcomes_throwing ==
    {[kind |-> "return", value |-> calculate, exc |-> NoExc]}
    \cup {[kind |-> "throw", value |-> 0, exc |-> StdException(w)] : w \in Msgs}

CalculateOutcomes ==
    IF stubbed
    THEN {[kind |-> "return", value |-> calculate, exc |-> NoExc]}
         \cup {[kind |-> "throw", value |-> 0, exc |-> StdException(w)] : w \in Msgs}
         \cup {[kind |-> "throw", value |-> 0, exc |-> OtherException]}
    ELSE {[kind |-> "return", value |-> calculate, exc |-> NoExc]}

\* void process_data() {}
ProcessDataOutcomes ==
    IF stubbed
    THEN {NoExc} \cup {StdException(w) : w \in Msgs}
    ELSE {NoExc}

\* void func_overload(int) / void func_overload(char*): the text each prints
func_overload(param) == IF param = "int" THEN CalledInt ELSE CalledCharPtr

\* variant of the resolution that treats every null argument as the integer 0
Resolve_as_int(argument) == "int"

\* overload resolution among func_overload(int) and func_overload(char*):
\* nullptr (std::nullptr_t) converts to char* and not to int; the literal 0
\* is an exact match for int
Resolve(argument) == IF argument = "nullptr" THEN "char*" ELSE "int"

\* the operation returns to (or throws into) the driver
Leave(t, res) ==
    /\ pc' = [pc EXCEPT ![t] = "idle"]
    /\ result' = [result EXCEPT ![t] = res]

\* ------------------------------------------------------------------- Init
InitCommon ==
    /\ entry \in {"main", "driver"}
    /\ mainpc = "start"
    /\ exit_code = -1
    /\ stdout = <<>>
    /\ stderr = <<>>
    /\ mutex = Free
    /\ users = [t \in Threads |-> 0]
    /\ func_calls = 0
    /\ do_other_calls = 0
    /\ ncalls = 0
    /\ pc = [t \in Threads |-> "idle"]
    /\ op = [t \in Threads |-> "none"]
    /\ x = [t \in Threads |-> FALSE]
    /\ str = [t \in Threads |-> ""]
    /\ result = [t \in Threads |-> "none"]
    /\ before = [t \in Threads |-> 0]
    /\ outcome = [t \in Threads |-> "none"]
    /\ exc = [t \in Threads |-> NoExc]

Init == InitCommon /\ stubbed = FALSE

InitStub == InitCommon /\ stubbed \in BOOLEAN

\* ------------------------------------------------------------------- main
\* variant of the banner statement without std::endl
MainPrint_no_endl ==
    /\ entry = "main"
    /\ mainpc = "start"
    /\ stdout' = Write(stdout, Banner)
    /\ mainpc' = "printed"
    /\ UNCHANGED <<entry, exit_code, stderr, mutex, users, func_calls,
                   do_other_calls, ncalls, stubbed, pc, op, x, str, result,
                   before, outcome, exc>>

\* std::cout << "C++ Code Examples successfully compiled." << std::endl;
MainPrint ==
    /\ entry = "main"
    /\ mainpc = "start"
    /\ stdout' = Write(Write(stdout, Banner), Endl)
    /\ mainpc' = "printed"
    /\ UNCHANGED <<entry, exit_code, stderr, mutex, users, func_calls,
                   do_other_calls, ncalls, stubbed, pc, op, x, str, result,
                   before, outcome, exc>>

\* return 0;
MainReturn ==
    /\ entry = "main"
    /\ mainpc = "printed"
    /\ exit_code' = 0
    /\ mainpc' = "exited"
    /\ UNCHANGED <<entry, stdout, stderr, mutex, users, func_calls,
                   do_other_calls, ncalls, stubbed, pc, op, x, str, result,
                   before, outcome, exc>>

\* ----------------------------------------------------------------- driver
\* thread t invokes operation o
Call(t) ==
    /\ entry = "driver"
    /\ pc[t] = "idle"
    /\ ncalls < MaxCalls
    /\ \E o \in Operations :
       \E xv \in (IF o = "Rule2_example" THEN BOOLEAN ELSE {FALSE}) :
       \E sv \in (IF o = "Rule4_print" THEN Strs ELSE {""}) :
          /\ pc' = [pc EXCEPT ![t] = o]
          /\ op' = [op EXCEPT ![t] = o]
          /\ x' = [x EXCEPT ![t] = xv]
          /\ str' = [str EXCEPT ![t] = sv]
    /\ result' = [result EXCEPT ![t] = "none"]
    /\ before' = [before EXCEPT ![t] = users[t]]
    /\ outcome' = [outcome EXCEPT ![t] = "none"]
    /\ exc' = [exc EXCEPT ![t] = NoExc]
    /\ ncalls' = ncalls + 1
    /\ UNCHANGED <<entry, mainVars, stdout, stderr, mutex, heapVars,
                   counterVars, stubbed>>

\* --------------------------------------------------------- Rule2_Structure
\* variant of example without the return: control falls through to do_other()
Rule2_example_fallthrough(t) ==
    /\ pc[t] = "Rule2_example"
    /\ IF x[t]
       THEN /\ func_calls' = func_calls + 1
            /\ do_other_calls' = do_other_calls + 1
       ELSE /\ do_other_calls' = do_other_calls + 1
            /\ UNCHANGED func_calls
    /\ Leave(t, "returned")
    /\ UNCHANGED <<entry, mainVars, stdout, stderr, mutex, heapVars, stubbed,
                   callVars, outcome, exc>>

\* if (x) { func(); return; } else { do_other(); }
Rule2_example(t) ==
    /\ pc[t] = "Rule2_example"
    /\ IF x[t]
       THEN /\ func_calls' = func_calls + 1
            /\ UNCHANGED do_other_calls
       ELSE /\ do_other_calls' = do_other_calls + 1
            /\ UNCHANGED func_calls
    /\ Leave(t, "returned")
    /\ UNCHANGED <<entry, mainVars, stdout, stderr, mutex, heapVars, stubbed,
                   callVars, outcome, exc>>

\* ------------------------------------------------------------ Rule3_Memory
\* User* u = new User();
Unsafe_new(t) ==
    /\ pc[t] = "unsafe"
    /\ users' = [users EXCEPT ![t] = @ + 1]
    /\ pc' = [pc EXCEPT ![t] = "unsafe_check"]
    /\ UNCHANGED <<entry, mainVars, stdout, stderr, mutex, counterVars, stubbed,
                   callVars, result, outcome, exc>>

\* if (error()) return;   // 'u' is not deleted
Unsafe_check(t) ==
    /\ pc[t] = "unsafe_check"
    /\ \E e \in ErrorResults :
          /\ outcome' = [outcome EXCEPT ![t] = IF e THEN "error_true" ELSE "error_false"]
          /\ IF e
             THEN Leave(t, "returned")
             ELSE /\ pc' = [pc EXCEPT ![t] = "unsafe_delete"]
                  /\ UNCHANGED result
    /\ UNCHANGED <<entry, mainVars, stdout, stderr, mutex, heapVars, counterVars,
                   stubbed, callVars, exc>>

\* delete u;
Unsafe_delete(t) ==
    /\ pc[t] = "unsafe_delete"
    /\ users' = [users EXCEPT ![t] = @ - 1]
    /\ Leave(t, "returned")
    /\ UNCHANGED <<entry, mainVars, stdout, stderr, mutex, counterVars, stubbed,
                   callVars, outcome, exc>>

\* auto u = std::make_unique<User>();
Safe_make(t) ==
    /\ pc[t] = "safe"
    /\ users' = [users EXCEPT ![t] = @ + 1]
    /\ pc' = [pc EXCEPT ![t] = "safe_check"]
    /\ UNCHANGED <<entry, mainVars, stdout, stderr, mutex, counterVars, stubbed,
                   callVars, result, outcome, exc>>

\* variant of safe holding a raw pointer: the early return skips the release
Safe_check_raw(t) ==
    /\ pc[t] = "safe_check"
    /\ \E e \in ErrorResults :
          /\ outcome' = [outcome EXCEPT ![t] = IF e THEN "error_true" ELSE "error_false"]
          /\ IF e
             THEN Leave(t, "returned")
             ELSE /\ pc' = [pc EXCEPT ![t] = "safe_dtor"]
                  /\ UNCHANGED result
    /\ UNCHANGED <<entry, mainVars, stdout, stderr, mutex, heapVars, counterVars,
                   stubbed, callVars, exc>>

\* if (error()) return;   -- either way control leaves the scope of u
Safe_check(t) ==
    /\ pc[t] = "safe_check"
    /\ \E e \in ErrorResults :
          outcome' = [outcome EXCEPT ![t] = IF e THEN "error_true" ELSE "error_false"]
    /\ pc' = [pc EXCEPT ![t] = "safe_dtor"]
    /\ UNCHANGED <<entry, mainVars, stdout, stderr, mutex, heapVars, counterVars,
                   stubbed, callVars, result, exc>>

\* ~unique_ptr<User>() deletes the User on leaving the scope
Safe_dtor(t) ==
    /\ pc[t] = "safe_dtor"
    /\ users' = [users EXCEPT ![t] = @ - 1]
    /\ Leave(t, "returned")
    /\ UNCHANGED <<entry, mainVars, stdout, stderr, mutex, counterVars, stubbed,
                   callVars, outcome, exc>>

\* ------------------------------------------------------------- Rule4_Const
\* std::cout << str;
Rule4_print(t) ==
    /\ pc[t] = "Rule4_print"
    /\ stdout' = Write(stdout, str[t])
    /\ Leave(t, "returned")
    /\ UNCHANGED <<entry, mainVars, stderr, mutex, heapVars, counterVars, stubbed,
                   callVars, outcome, exc>>

\* -------------------------------------------------------------- Rule5_RAII
\* variant of bad_lock that does not wait for m
Bad_lock_nowait(t) ==
    /\ pc[t] = "bad_lock"
    /\ mutex' = t
    /\ pc' = [pc EXCEPT ![t] = "bad_process"]
    /\ UNCHANGED <<entry, mainVars, stdout, stderr, heapVars, counterVars, stubbed,
                   callVars, result, outcome, exc>>

\* m.lock(): blocks while another thread owns m.  Locking a std::mutex the
\* caller already owns is undefined: the call either never returns (no step)
\* or throws std::system_error.
Bad_lock(t) ==
    /\ pc[t] = "bad_lock"
    /\ IF mutex = Free
       THEN /\ mutex' = t
            /\ pc' = [pc EXCEPT ![t] = "bad_process"]
            /\ UNCHANGED <<result, outcome, exc>>
       ELSE /\ mutex = t
            /\ outcome' = [outcome EXCEPT ![t] = "relock"]
            /\ exc' = [exc EXCEPT ![t] = SystemError]
            /\ Leave(t, "threw")
            /\ UNCHANGED mutex
    /\ UNCHANGED <<entry, mainVars, stdout, stderr, heapVars, counterVars, stubbed,
                   callVars>>

\* process_data();   -- an exception leaves bad_lock without reaching m.unlock()
Bad_process(t) ==
    /\ pc[t] = "bad_process"
    /\ \E e \in ProcessDataOutcomes :
          /\ exc' = [exc EXCEPT ![t] = e]
          /\ outcome' = [outcome EXCEPT ![t] = IF e = NoExc THEN "pd_ok" ELSE "pd_throw"]
          /\ IF e = NoExc
             THEN /\ pc' = [pc EXCEPT ![t] = "bad_unlock"]
                  /\ UNCHANGED result
             ELSE Leave(t, "threw")
    /\ UNCHANGED <<entry, mainVars, stdout, stderr, mutex, heapVars, counterVars,
                   stubbed, callVars>>

\* m.unlock();
Bad_unlock(t) ==
    /\ pc[t] = "bad_unlock"
    /\ mutex' = Free
    /\ Leave(t, "returned")
    /\ UNCHANGED <<entry, mainVars, stdout, stderr, heapVars, counterVars, stubbed,
                   callVars, outcome, exc>>

\* std::lock_guard<std::mutex> lk(m);   -- the constructor calls m.lock()
Good_lock(t) ==
    /\ pc[t] = "good_lock"
    /\ IF mutex = Free
       THEN /\ mutex' = t
            /\ pc' = [pc EXCEPT ![t] = "good_process"]
            /\ UNCHANGED <<result, outcome, exc>>
       ELSE /\ mutex = t
            /\ outcome' = [outcome EXCEPT ![t] = "relock"]
            /\ exc' = [exc EXCEPT ![t] = SystemError]
            /\ Leave(t, "threw")
            /\ UNCHANGED mutex
    /\ UNCHANGED <<entry, mainVars, stdout, stderr, heapVars, counterVars, stubbed,
                   callVars>>

\* process_data();   -- returning or throwing, control leaves the scope of lk
Good_process(t) ==
    /\ pc[t] = "good_process"
    /\ \E e \in ProcessDataOutcomes :
          /\ exc' = [exc EXCEPT ![t] = e]
          /\ outcome' = [outcome EXCEPT ![t] = IF e = NoExc THEN "pd_ok" ELSE "pd_throw"]
    /\ pc' = [pc EXCEPT ![t] = "good_dtor"]
    /\ UNCHANGED <<entry, mainVars, stdout, stderr, mutex, heapVars, counterVars,
                   stubbed, callVars, result>>

\* variant of good_lock with an explicit m.unlock() after process_data()
Good_dtor_manual(t) ==
    /\ pc[t] = "good_dtor"
    /\ mutex' = IF exc[t] = NoExc THEN Free ELSE mutex
    /\ Leave(t, IF exc[t] = NoExc THEN "returned" ELSE "threw")
    /\ UNCHANGED <<entry, mainVars, stdout, stderr, heapVars, counterVars, stubbed,
                   callVars, outcome, exc>>

\* ~lock_guard() calls m.unlock(), on return and during unwinding alike
Good_dtor(t) ==
    /\ pc[t] = "good_dtor"
    /\ mutex' = Free
    /\ Leave(t, IF exc[t] = NoExc THEN "returned" ELSE "threw")
    /\ UNCHANGED <<entry, mainVars, stdout, stderr, heapVars, counterVars, stubbed,
                   callVars, outcome, exc>>

\* ----------------------------------------------------- Rule6_ErrorHandling
\* void old_style() { /* ... */ }
Old_style(t) ==
    /\ pc[t] = "old_style"
    /\ Leave(t, "returned")
    /\ UNCHANGED <<entry, mainVars, stdout, stderr, mutex, heapVars, counterVars,
                   stubbed, callVars, outcome, exc>>

\* variant of new_style whose handler writes only the prefix
New_style_no_what(t) ==
    /\ pc[t] = "new_style"
    /\ \E c \in CalculateOutcomes :
          IF c.kind = "return"
          THEN /\ outcome' = [outcome EXCEPT ![t] = "calc_ok"]
               /\ Leave(t, "returned")
               /\ UNCHANGED <<stderr, exc>>
          ELSE IF c.exc.type = "std::exception"
          THEN /\ outcome' = [outcome EXCEPT ![t] = "caught"]
               /\ exc' = [exc EXCEPT ![t] = c.exc]
               /\ stderr' = Write(stderr, ErrorPrefix)
               /\ Leave(t, "returned")
          ELSE /\ outcome' = [outcome EXCEPT ![t] = "uncaught"]
               /\ exc' = [exc EXCEPT ![t] = c.exc]
               /\ Leave(t, "threw")
               /\ UNCHANGED stderr
    /\ UNCHANGED <<entry, mainVars, stdout, mutex, heapVars, counterVars, stubbed,
                   callVars>>

\* try { int res = calculate(); }
\* catch (const std::exception& e) { std::cerr << "Error: " << e.what(); }
New_style(t) ==
    /\ pc[t] = "new_style"
    /\ \E c \in CalculateOutcomes :
          IF c.kind = "return"
          THEN /\ outcome' = [outcome EXCEPT ![t] = "calc_ok"]
               /\ Leave(t, "returned")
               /\ UNCHANGED <<stderr, exc>>
          ELSE IF c.exc.type = "std::exception"
          THEN /\ outcome' = [outcome EXCEPT ![t] = "caught"]
               /\ exc' = [exc EXCEPT ![t] = c.exc]
               /\ stderr' = Write(Write(stderr, ErrorPrefix), c.exc.what)
               /\ Leave(t, "returned")
          ELSE /\ outcome' = [outcome EXCEPT ![t] = "uncaught"]
               /\ exc' = [exc EXCEPT ![t] = c.exc]
               /\ Leave(t, "threw")
               /\ UNCHANGED stderr
    /\ UNCHANGED <<entry, mainVars, stdout, mutex, heapVars, counterVars, stubbed,
                   callVars>>

\* ------------------------------------------------------- Rule7_Performance
\* void process(const std::vector<int>& data) { }
Rule7_process(t) ==
    /\ pc[t] = "Rule7_process"
    /\ \E data \in Vectors : Len(data) >= 0
    /\ Leave(t, "returned")
    /\ UNCHANGED <<entry, mainVars, stdout, stderr, mutex, heapVars, counterVars,
                   stubbed, callVars, outcome, exc>>

\* ----------------------------------------------------------- Rule8_Casting
\* Derived derived_obj; Base* derived_ptr = &derived_obj;
\* Base* b = static_cast<Base*>(derived_ptr);
Rule8_example(t) ==
    /\ pc[t] = "Rule8_example"
    /\ Leave(t, "returned")
    /\ UNCHANGED <<entry, mainVars, stdout, stderr, mutex, heapVars, counterVars,
                   stubbed, callVars, outcome, exc>>

\* ----------------------------------------------------------- Rule9_Nullptr
\* func_overload(nullptr);
Rule9_example(t) ==
    /\ pc[t] = "Rule9_example"
    /\ stdout' = Write(stdout, func_overload(Resolve("nullptr")))
    /\ Leave(t, "returned")
    /\ UNCHANGED <<entry, mainVars, stderr, mutex, heapVars, counterVars, stubbed,
                   callVars, outcome, exc>>

\* ------------------------------------------------------- Rule10_Namespaces
\* variant of print that writes to std::cerr
Rule10_print_cerr(t) ==
    /\ pc[t] = "Rule10_print"
    /\ stderr' = Write(stderr, HelloWorld)
    /\ Leave(t, "returned")
    /\ UNCHANGED <<entry, mainVars, stdout, mutex, heapVars, counterVars, stubbed,
                   callVars, outcome, exc>>

\* std::cout << "Hello World";
Rule10_print(t) ==
    /\ pc[t] = "Rule10_print"
    /\ stdout' = Write(stdout, HelloWorld)
    /\ Leave(t, "returned")
    /\ UNCHANGED <<entry, mainVars, stderr, mutex, heapVars, counterVars, stubbed,
                   callVars, outcome, exc>>

\* -------------------------------------------------------------------- Next
\* a step of the operation thread t is executing
Step(t) ==
    \/ Rule2_example(t)
    \/ Unsafe_new(t)
    \/ Unsafe_check(t)
    \/ Unsafe_delete(t)
    \/ Safe_make(t)
    \/ Safe_check(t)
    \/ Safe_dtor(t)
    \/ Rule4_print(t)
    \/ Bad_lock(t)
    \/ Bad_process(t)
    \/ Bad_unlock(t)
    \/ Good_lock(t)
    \/ Good_process(t)
    \/ Good_dtor(t)
    \/ Old_style(t)
    \/ New_style(t)
    \/ Rule7_process(t)
    \/ Rule8_example(t)
    \/ Rule9_example(t)
    \/ Rule10_print(t)

Next ==
    \/ MainPrint
    \/ MainReturn
    \/ \E t \in Threads : Call(t)
    \/ \E t \in Threads : Step(t)

Spec == Init /\ [][Next]_vars

SpecStub == InitStub /\ [][Next]_vars

\* every thread that is inside an operation is eventually scheduled
FairSpec == Spec /\ \A t \in Threads : WF_vars(Step(t))

\* ---------------------------------------------------------------- claims
\* thread t has invoked an operation and the operation has finished
Done(t) == pc[t] = "idle" /\ result[t] # "none"

\* the operation of t is the only one invoked since the initial state
Alone(t) == entry = "driver" /\ ncalls = 1 /\ op[t] # "none"

LockPcs == {"bad_lock", "bad_process", "bad_unlock",
            "good_lock", "good_process", "good_dtor"}

\* C1: a run of main writes exactly the banner line and a newline to standard
\* output, returns exit code 0, and invokes none of the rule operations.
C1_MainRun ==
    entry = "main" =>
        /\ ncalls = 0
        /\ \A t \in Threads : pc[t] = "idle" /\ op[t] = "none"
        /\ mainpc = "start" => stdout = <<>>
        /\ mainpc # "start" =>
              stdout = <<"C++ Code Examples successfully compiled.", "\n">>
        /\ mainpc = "exited" <=> exit_code = 0

C1_Witness ==
    /\ entry = "main"
    /\ mainpc = "exited"
    /\ exit_code = 0
    /\ stdout = <<"C++ Code Examples successfully compiled.", "\n">>

\* C2 as stated: every operation invoked alone from the initial state returns
\* without throwing and writes nothing to standard output or standard error,
\* except Rule10 print, which writes exactly "Hello World".
C2_SilentExceptRule10 ==
    \A t \in Threads :
        Alone(t) /\ Done(t) =>
            /\ result[t] = "returned"
            /\ stderr = <<>>
            /\ stdout = IF op[t] = "Rule10_print" THEN <<"Hello World">> ELSE <<>>

\* C2 as amended: every operation invoked alone from the initial state returns
\* without throwing and writes nothing to standard error; standard output gets
\* "Hello World" from Rule10 print, "Called func(char*)\n" from Rule9 example,
\* the argument from Rule4 print, and nothing from the other operations.
C2_OutputPerOperation ==
    \A t \in Threads :
        Alone(t) /\ Done(t) =>
            /\ result[t] = "returned"
            /\ stderr = <<>>
            /\ stdout = CASE op[t] = "Rule10_print" -> <<"Hello World">>
                          [] op[t] = "Rule9_example" -> <<"Called func(char*)\n">>
                          [] op[t] = "Rule4_print" ->
                                IF str[t] = "" THEN <<>> ELSE <<str[t]>>
                          [] OTHER -> <<>>

C2_Witness ==
    \E t \in Threads :
        /\ Alone(t) /\ Done(t)
        /\ op[t] = "Rule9_example"
        /\ stdout = <<"Called func(char*)\n">>

\* C3: whichever value error() returns, once safe() has returned the User it
\* acquired is released: as many User instances are allocated as before the call.
C3_SafeReleases ==
    \A t \in Threads :
        op[t] = "safe" /\ Done(t) => users[t] = before[t]

C3_Witness ==
    \E t \in Threads :
        /\ op[t] = "safe" /\ Done(t)
        /\ outcome[t] = "error_true"
        /\ users[t] = before[t]

\* C4: good_lock() holds m while process_data() runs and has released it once
\* it has exited, whether process_data() returned or threw; invoked alone, it
\* leaves m free.
C4_GoodLockReleases ==
    \A t \in Threads :
        /\ pc[t] = "good_process" => mutex = t
        /\ op[t] = "good_lock" /\ Done(t) /\ outcome[t] \in {"pd_ok", "pd_throw"} =>
              /\ mutex # t
              /\ Alone(t) => mutex = Free

C4_Witness ==
    \E t \in Threads :
        /\ op[t] = "good_lock" /\ Done(t)
        /\ outcome[t] = "pd_throw"
        /\ result[t] = "threw"
        /\ mutex = Free

\* C5: with the helpers as defined nothing is ever written to standard error,
\* by main or by any operation, and new_style() never enters its catch handler.
C5_StderrUnused ==
    /\ stderr = <<>>
    /\ \A t \in Threads :
          op[t] = "new_style" /\ Done(t) =>
              outcome[t] = "calc_ok" /\ result[t] = "returned"

C5_Witness ==
    \E t \in Threads :
        /\ op[t] = "new_style" /\ Done(t)
        /\ outcome[t] = "calc_ok"
        /\ stderr = <<>>

\* C6 as stated: when calculate() throws a std::exception carrying a message,
\* new_style() catches it and what is written to standard error is that message.
C6_WritesMessage ==
    \A t \in Threads :
        Alone(t) /\ op[t] = "new_style" /\ Done(t) /\ exc[t].type = "std::exception" =>
            /\ result[t] = "returned"
            /\ stderr = <<exc[t].what>>

\* C6 as amended: when calculate() throws a std::exception carrying a message,
\* new_style() catches it and what is written to standard error is the text
\* "Error: " followed by that message.
C6_WritesPrefixedMessage ==
    \A t \in Threads :
        Alone(t) /\ op[t] = "new_style" /\ Done(t) /\ exc[t].type = "std::exception" =>
            /\ result[t] = "returned"
            /\ stderr = <<"Error: ", exc[t].what>>

C6_Witness ==
    \E t \in Threads :
        /\ Alone(t) /\ op[t] = "new_style" /\ Done(t)
        /\ outcome[t] = "caught"
        /\ stderr = <<"Error: ", "overflow">>

\* C7: Rule9 example() always dispatches to func_overload(char*) and never to
\* func_overload(int): the text of the int overload never reaches standard
\* output, and an example() invoked alone writes the text of the char* overload.
C7_PointerOverload ==
    /\ \A i \in 1..Len(stdout) : stdout[i] # "Called func(int)\n"
    /\ \A t \in Threads :
          Alone(t) /\ op[t] = "Rule9_example" /\ Done(t) =>
              stdout = <<"Called func(char*)\n">>

C7_Witness ==
    \E t \in Threads :
        /\ op[t] = "Rule9_example" /\ Done(t)
        /\ ncalls > 1
        /\ \E i \in 1..Len(stdout) : stdout[i] = "Called func(char*)\n"

\* C8: Rule2 example(x) invokes exactly one no-op: func() once and not
\* do_other() when x is true, do_other() once and not func() when x is false.
C8_OneNoOp ==
    [][\A t \in Threads :
          pc[t] = "Rule2_example" /\ pc'[t] = "idle" =>
              /\ result'[t] = "returned"
              /\ IF x[t]
                 THEN func_calls' = func_calls + 1 /\ do_other_calls' = do_other_calls
                 ELSE func_calls' = func_calls /\ do_other_calls' = do_other_calls + 1]_vars

C8_Witness ==
    \E t \in Threads :
        /\ Alone(t) /\ op[t] = "Rule2_example" /\ Done(t)
        /\ x[t]
        /\ func_calls = 1
        /\ do_other_calls = 0

\* C9: with error() as defined, every call of unsafe() takes the delete path
\* and leaves the number of allocated User instances unchanged; a User stays
\* allocated after unsafe() returns only if error() returned true, which only a
\* replacement of the helper can do.
C9_UnsafeLeaksOnlyOnError ==
    \A t \in Threads :
        op[t] = "unsafe" /\ Done(t) =>
            /\ ~stubbed => outcome[t] = "error_false" /\ users[t] = before[t]
            /\ users[t] # before[t] => stubbed /\ outcome[t] = "error_true"

C9_Witness ==
    \E t \in Threads :
        /\ op[t] = "unsafe" /\ Done(t)
        /\ ~stubbed
        /\ outcome[t] = "error_false"
        /\ users[t] = before[t]

\* C10: when threads invoke good_lock() and bad_lock() concurrently, at most
\* one thread is inside process_data() at any time, m is free whenever no
\* invocation is in progress, and under fair scheduling every invocation of
\* good_lock() or bad_lock() eventually returns.
C10_LockProtocol ==
    /\ [](Cardinality({t \in Threads : pc[t] \in {"bad_process", "good_process"}}) <= 1)
    /\ []((\A t \in Threads : pc[t] = "idle") => mutex = Free)
    /\ \A t \in Threads : (pc[t] \in LockPcs) ~> (Done(t) /\ result[t] = "returned")

C10_Witness ==
    \E t, u \in Threads :
        /\ pc[t] = "bad_process"
        /\ pc[u] = "good_lock"
        /\ mutex = t
====
